---------------------------- MODULE Spec2Model ----------------------------
(***************************************************************************)
(* A model of the chat coordinator of src/src/handlers.ts: the Lambda      *)
(* handler `handle` and the handlers it dispatches to, over the Clients    *)
(* table (the connection registry), the Messages table (the message store) *)
(* and the API Gateway push channel.                                       *)
(*                                                                         *)
(* Every `await` of the source is a step of its own: an invocation is a    *)
(* record with a program counter, and the pushes of a fan-out are tasks    *)
(* in flight that resolve in any order.  Spec runs one invocation at a     *)
(* time (each runs to completion before the next begins), as do SpecFan    *)
(* (presence over three nicknames) and SpecStore (sends, with nicknames    *)
(* that hold the separator and a running clock); SpecRace and SpecRaceFan  *)
(* run two invocations side by side.  In Spec, SpecFan and the race        *)
(* specifications the clock stands still: no handler but handleSendMessage *)
(* reads it, and it only stores what it read.                              *)
(*                                                                         *)
(* Strings that the code compares or concatenates (nicknames, conversation *)
(* keys) are sequences of UTF-16 code units; message bodies and error      *)
(* texts are opaque and are TLA+ strings.                                  *)
(***************************************************************************)
EXTENDS Integers, Sequences, FiniteSets, TLC

\* ------------------------------------------------------------------ bounds
\* Connection ids the transport layer can assign (each is assigned once).
MaxConn == 2
\* Rows the Messages table may hold before sendMessage events stop arriving.
MaxMsgs == 2
\* Connection ids the transport can assign where the claims are about presence
\* alone (the fan-out of a broadcast, interleaved invocations).
MaxFanConn == 3
\* Milliseconds the clock may advance where the claims read createdAt.
MaxTicks == 2

\* --------------------------------------------------------------- constants
\* The code unit of "#", the separator of join("#").
Hash == 35
\* Date.prototype.getMilliseconds() is the time modulo this.
MillisPerSecond == 1000

ConnIds == 1..MaxConn
FanConnIds == 1..MaxFanConn
AllConnIds == ConnIds \cup FanConnIds
\* connectionId of "no connection" (undefined in the source).
NoConn == 0

\* The nicknames clients choose: "a" and "b".
Alice == <<97>>
Bob == <<98>>
Nicknames == {Alice, Bob}
EmptyString == <<>>

\* The message bodies clients send.
Texts == {"hi"}

Slots == {1, 2}

\* --------------------------------------------------------------- JS values
\* A JavaScript value of a parsed field: a string, a number or undefined.
JsString(s) == [t |-> "string", s |-> s, n |-> 0]
JsNumber(n) == [t |-> "number", s |-> EmptyString, n |-> n]
JsUndefined == [t |-> "undefined", s |-> EmptyString, n |-> 0]
JsText(s) == [t |-> "string", s |-> s]
JsTextNumber == [t |-> "number", s |-> ""]
JsTextUndefined == [t |-> "undefined", s |-> ""]

\* A test of presence that takes the empty string for a value.
FalsyUndefinedOnly(v) == v.t = "undefined"

\* !v for a field value: undefined, "" and 0 are falsy.
Falsy(v) ==
  \/ v.t = "undefined"
  \/ v.t = "string" /\ v.s = EmptyString
  \/ v.t = "number" /\ v.n = 0

\* ----------------------------------------------------------------- inputs
\* event.queryStringParameters: null, or an object with or without nickname.
QueryStringParameters ==
  {[kind |-> "null", nickname |-> JsUndefined],
   [kind |-> "object", nickname |-> JsUndefined]}
  \cup {[kind |-> "object", nickname |-> JsString(s)] :
          s \in Nicknames \cup {EmptyString}}

\* event.body of sendMessage: absent (null or ""), text that is not JSON,
\* JSON of a falsy value (null), or JSON of an object.
SendMessageBodies ==
  {[kind |-> k, message |-> JsTextUndefined, receiverNickname |-> JsUndefined] :
     k \in {"absent", "garbage", "falsy"}}
  \cup {[kind |-> "object", message |-> JsText(x), receiverNickname |-> JsString(s)] :
          x \in Texts, s \in Nicknames}
  \cup {[kind |-> "object", message |-> JsTextNumber, receiverNickname |-> JsString(Alice)],
        [kind |-> "object", message |-> JsText("hi"), receiverNickname |-> JsUndefined]}

\* event.body of getMessages.
GetMessagesBodies ==
  {[kind |-> k, targetNickname |-> JsUndefined, limit |-> JsUndefined] :
     k \in {"absent", "garbage"}}
  \cup {[kind |-> "object", targetNickname |-> JsString(Alice), limit |-> l] :
          l \in {JsNumber(1), JsNumber(0), JsNumber(-1), JsUndefined}}
  \cup {[kind |-> "object", targetNickname |-> JsString(EmptyString),
         limit |-> JsNumber(1)]}

\* --------------------------------------------------------- pure functions
\* The order of Array.prototype.sort() on strings: by UTF-16 code units.
RECURSIVE LexLess(_, _)
LexLess(s, t) ==
  IF s = <<>> THEN t # <<>>
  ELSE IF t = <<>> THEN FALSE
  ELSE IF Head(s) # Head(t) THEN Head(s) < Head(t)
  ELSE LexLess(Tail(s), Tail(t))

\* The pair left in the order given.
SortPairUnsorted(x, y) == <<x, y>>

\* [x, y].sort()
SortPair(x, y) == IF LexLess(y, x) THEN <<y, x>> ELSE <<x, y>>

\* pair.join("#")
JoinPair(pair) == pair[1] \o <<Hash>> \o pair[2]

\* [sender.nickname, body.receiverNickname].sort().join("#")
NicknameToNickname(senderNickname, receiverNickname) ==
  JoinPair(SortPair(senderNickname, receiverNickname))

\* JSON.parse(body || "{}"): a SyntaxError on text that is not JSON; an absent
\* body parses as the object {} whose fields are all undefined.
JSONparse(body) ==
  IF body.kind = "garbage" THEN [error |-> "SyntaxError", value |-> body]
  ELSE IF body.kind = "absent"
  THEN [error |-> "none", value |-> [body EXCEPT !.kind = "object"]]
  ELSE [error |-> "none", value |-> body]

parseSendMessageBody(body) ==
  LET p == JSONparse(body) IN
  IF p.error # "none" THEN p
  ELSE IF \/ p.value.kind = "falsy"
          \/ p.value.message.t # "string"
          \/ p.value.receiverNickname.t # "string"
  THEN [error |-> "HandleError", value |-> p.value]
  ELSE p

parseGetMessagesBody(body) ==
  LET p == JSONparse(body) IN
  IF p.error # "none" THEN p
  ELSE IF \/ p.value.kind = "falsy"
          \/ p.value.targetNickname.t # "string"
          \/ p.value.limit.t # "number"
  THEN [error |-> "HandleError", value |-> p.value]
  ELSE p

\* The data of a push.
NoData == [type |-> "none", clients |-> {}, sender |-> EmptyString, message |-> ""]
buildClientsMessage(clients) ==
  [type |-> "clients", clients |-> clients, sender |-> EmptyString, message |-> ""]
buildMessage(senderNickname, message) ==
  [type |-> "message", clients |-> {}, sender |-> senderNickname, message |-> message]
\* e.message of a HandleError, pushed as it is.
buildErrorText(text) ==
  [type |-> "text", clients |-> {}, sender |-> EmptyString, message |-> text]

\* ------------------------------------------------------------------ state
VARIABLES
  clientsTable,   \* the Clients table: rows {connectionId, nickname}
  messagesTable,  \* the Messages table: rows {messageId, createdAt, nicknameToNickname, message, sender}
  sentTo,         \* history: sentTo[messageId] is the receiverNickname of that row's send
  conn,           \* the transport's view of each connectionId
  inv,            \* the invocations of `handle`, one per slot
  observed,       \* history of the pushes, kept where the claims read it
  now             \* the clock of new Date(), in milliseconds

vars == <<clientsTable, messagesTable, sentTo, conn, inv, observed, now>>

NoClient == [connectionId |-> NoConn, nickname |-> EmptyString]

\* What a connection that has got no clients snapshot has seen last.
NoSnapshot == {NoClient}

\* The history of the pushes: whether it is kept, the clients snapshot each
\* connection got last, and whether any push has failed (gone or otherwise).
NoObservation ==
  [on |-> FALSE, snapshot |-> [c \in AllConnIds |-> NoSnapshot], failed |-> FALSE]

\* The history after connection c has ended: what it had seen is gone.
Forget(c) ==
  IF ~observed.on THEN observed
  ELSE [observed EXCEPT !.snapshot[c] = NoSnapshot]

\* The history after a push of data to connection c has resolved.
Observe(c, data, outcome) ==
  IF ~observed.on THEN observed
  ELSE [observed EXCEPT
          !.snapshot[c] = IF outcome = "ok" /\ data.type = "clients"
                          THEN data.clients ELSE @,
          !.failed = @ \/ outcome # "ok"]

IdleInvocation ==
  [pc |-> "idle", routeKey |-> "none", connectionId |-> NoConn,
   nickname |-> EmptyString, sender |-> NoClient,
   receiverNickname |-> EmptyString, message |-> "",
   nicknameToNickname |-> EmptyString, messageId |-> 0,
   existingConnectionId |-> NoConn,
   targetNickname |-> JsUndefined, limit |-> JsUndefined,
   data |-> NoData, attempted |-> {}, posts |-> {}, deletes |-> {}, sent |-> {},
   statusCode |-> 0, parse |-> "none", error |-> "none",
   before |-> {}]

Init ==
  /\ clientsTable = {}
  /\ messagesTable = {}
  /\ sentTo = <<>>
  /\ conn = [c \in AllConnIds |-> "fresh"]
  /\ inv = [i \in Slots |-> IdleInvocation]
  /\ observed = NoObservation
  /\ now = MillisPerSecond - MaxTicks

\* -------------------------------------------------------- table operations
\* A put that keeps one row per nickname: it replaces the row of the nickname.
PutClientByNickname(table, connectionId, nickname) ==
  {r \in table : r.connectionId # connectionId /\ r.nickname # nickname}
    \cup {[connectionId |-> connectionId, nickname |-> nickname]}

\* docClient.put on Clients: an upsert keyed by connectionId.
PutClient(table, connectionId, nickname) ==
  {r \in table : r.connectionId # connectionId}
    \cup {[connectionId |-> connectionId, nickname |-> nickname]}

\* A delete that removes nothing.
DeleteClientNothing(table, connectionId) == table

\* docClient.delete on Clients: no error when the row is absent.
DeleteClient(table, connectionId) ==
  {r \in table : r.connectionId # connectionId}

\* docClient.get on Clients by connectionId: the Item, or undefined.
GetClient(table, connectionId) ==
  IF \E r \in table : r.connectionId = connectionId
  THEN CHOOSE r \in table : r.connectionId = connectionId
  ELSE NoClient

\* The connectionIds the NicknameIndex query returns for a nickname.
QueryByNickname(table, nickname) ==
  {r.connectionId : r \in {x \in table : x.nickname = nickname}}

\* The lookup that finds no row.
ConnectionIdsByNicknameNone(table, nickname) == {NoConn}

\* getConnectioinIdByNickname: Items[0] of the query, whose order the index
\* does not fix, or undefined.
ConnectionIdsByNickname(table, nickname) ==
  IF QueryByNickname(table, nickname) = {} THEN {NoConn}
  ELSE QueryByNickname(table, nickname)

\* uuid v4(): an id no row carries yet.
NewMessageId(table) == Cardinality(table) + 1

\* ------------------------------------------------------------ invocations
Finished(i) == inv[i].pc \in {"idle", "returned", "raised"}
Quiet(i) == Finished(i) /\ inv[i].posts = {} /\ inv[i].deletes = {}

\* One invocation at a time: the next event is handled when the previous
\* invocation has ended and left nothing in flight.
SeqReady(i) == i = 1 /\ \A j \in Slots : inv[j].pc = "idle"

\* The connections a push reaches.
Open == {c \in AllConnIds : conn[c] = "open"}

\* A new invocation of `handle`.  `before` is history: the Clients table as
\* the event arrived.
Begin(routeKey, connectionId) ==
  [IdleInvocation EXCEPT !.pc = "started", !.routeKey = routeKey,
                         !.connectionId = connectionId,
                         !.before = clientsTable]

Return(r, statusCode) == [r EXCEPT !.pc = "returned", !.statusCode = statusCode]
Raise(r, error) == [r EXCEPT !.pc = "raised", !.error = error]

\* The transport opens the connection when $connect returns 200 and refuses
\* it on any other outcome of the $connect invocation.
Settle(i, r) ==
  /\ inv' = [inv EXCEPT ![i] = r]
  /\ conn' = IF r.routeKey = "$connect" /\ r.pc \in {"returned", "raised"}
             THEN [conn EXCEPT ![r.connectionId] =
                     IF r.pc = "returned" /\ r.statusCode = 200
                     THEN "open" ELSE "ended"]
             ELSE conn

\* The transport assigns each connectionId once; the ids are taken in order.
FreshIds == {c \in AllConnIds : conn[c] = "fresh"}
NextConnectionId ==
  IF FreshIds = {} THEN NoConn
  ELSE CHOOSE c \in FreshIds : \A d \in FreshIds : c <= d

\* A connectionId whose frames the transport may still dispatch: those of an
\* open connection, and of a closed one until its $disconnect is dispatched.
WasOpened(c) == conn[c] \in {"open", "closed"}

\* await postToConnection(connectionId, data), and the await of Promise.all
\* over several of them: the pushes are in flight.
AwaitPosts(r, targets, data) ==
  [r EXCEPT !.pc = "awaitPosts", !.attempted = targets, !.posts = targets,
            !.data = data]

\* ------------------------------------------------------------------ handle
\* case "$connect": handleConnect up to its first await.
handleConnect(i, c, q) ==
  /\ c = NextConnectionId
  /\ IF q.kind = "null" \/ Falsy(q.nickname)
     THEN Settle(i, Return(Begin("$connect", c), 403))
     ELSE /\ inv' = [inv EXCEPT ![i] =
                       [Begin("$connect", c) EXCEPT !.pc = "connectQuery",
                                                    !.nickname = q.nickname.s]]
          /\ conn' = [conn EXCEPT ![c] = "connecting"]
  /\ UNCHANGED <<observed, now, clientsTable, messagesTable, sentTo>>

\* case "$disconnect": handleDisconnect up to its first await.
handleDisconnect(i, c) ==
  /\ conn[c] = "closed"
  /\ conn' = [conn EXCEPT ![c] = "ended"]
  /\ inv' = [inv EXCEPT ![i] =
               [Begin("$disconnect", c) EXCEPT !.pc = "disconnectDelete"]]
  /\ UNCHANGED <<observed, now, clientsTable, messagesTable, sentTo>>

\* case "getClients" without its return: handleGetClients is started and left
\* behind, and the dispatch falls through into case "$disconnect".
handleGetClientsFallThrough(i, c) ==
  /\ WasOpened(c)
  /\ inv' = [inv EXCEPT ![i] =
               [Begin("getClients", c) EXCEPT !.pc = "disconnectDelete"]]
  /\ UNCHANGED <<observed, now, clientsTable, messagesTable, sentTo, conn>>

\* case "getClients": handleGetClients up to its first await.
handleGetClients(i, c) ==
  /\ WasOpened(c)
  /\ inv' = [inv EXCEPT ![i] =
               [Begin("getClients", c) EXCEPT !.pc = "getClientsScan"]]
  /\ UNCHANGED <<observed, now, clientsTable, messagesTable, sentTo, conn>>

\* case "sendMessage": parseSendMessageBody, then handleSendMessage up to its
\* first await.  A HandleError is caught and pushed to the caller; any other
\* error of the parse is thrown again.
handleSendMessage(i, c, body) ==
  /\ WasOpened(c)
  /\ Cardinality(messagesTable) < MaxMsgs
  /\ LET p == parseSendMessageBody(body)
         r == [Begin("sendMessage", c) EXCEPT !.parse = p.error]
     IN inv' = [inv EXCEPT ![i] =
          IF p.error = "HandleError"
          THEN AwaitPosts(r, {c}, buildErrorText("incorrect SendMessageBody format"))
          ELSE IF p.error # "none" THEN Raise(r, p.error)
          ELSE [r EXCEPT !.pc = "sendGet",
                         !.receiverNickname = p.value.receiverNickname.s,
                         !.message = p.value.message.s]]
  /\ UNCHANGED <<observed, now, clientsTable, messagesTable, sentTo, conn>>

\* case "getMessages": parseGetMessagesBody, then handleGetMessages, which
\* reads the undeclared name `nickname` while it builds its query.
handleGetMessages(i, c, body) ==
  /\ WasOpened(c)
  /\ LET p == parseGetMessagesBody(body)
         r == [Begin("getMessages", c) EXCEPT !.parse = p.error]
     IN inv' = [inv EXCEPT ![i] =
          IF p.error = "HandleError"
          THEN AwaitPosts(r, {c}, buildErrorText("incorrect GetNessages format"))
          ELSE IF p.error # "none" THEN Raise(r, p.error)
          ELSE Raise([r EXCEPT !.targetNickname = p.value.targetNickname,
                               !.limit = p.value.limit],
                     "ReferenceError")]
  /\ UNCHANGED <<observed, now, clientsTable, messagesTable, sentTo, conn>>

\* default: any other routeKey.
handleDefault(i, c) ==
  /\ WasOpened(c)
  /\ inv' = [inv EXCEPT ![i] = Return(Begin("other", c), 500)]
  /\ UNCHANGED <<observed, now, clientsTable, messagesTable, sentTo, conn>>

\* ----------------------------------------------------------- handleConnect
\* The lookup whose result is not tested: the put follows in every case.
ConnectQueryUntested(i) ==
  /\ inv[i].pc = "connectQuery"
  /\ \E e \in ConnectionIdsByNickname(clientsTable, inv[i].nickname) :
       Settle(i, [inv[i] EXCEPT !.existingConnectionId = e, !.pc = "connectPut"])
  /\ UNCHANGED <<observed, now, clientsTable, messagesTable, sentTo>>

\* await getConnectioinIdByNickname(nickname), then
\* `if (existingConnectionId && JSON.stringify({ type: "ping" }))`: the second
\* operand is a non-empty string, so the test is that of existingConnectionId.
ConnectQuery(i) ==
  /\ inv[i].pc = "connectQuery"
  /\ \E e \in ConnectionIdsByNickname(clientsTable, inv[i].nickname) :
       LET r == [inv[i] EXCEPT !.existingConnectionId = e] IN
       IF e # NoConn
       THEN Settle(i, Return(r, 403))
       ELSE Settle(i, [r EXCEPT !.pc = "connectPut"])
  /\ UNCHANGED <<observed, now, clientsTable, messagesTable, sentTo>>

\* await docClient.put({connectionId, nickname}), then notifyClients.
ConnectPut(i) ==
  /\ inv[i].pc = "connectPut"
  /\ clientsTable' = PutClient(clientsTable, inv[i].connectionId, inv[i].nickname)
  /\ inv' = [inv EXCEPT ![i].pc = "notifyScan"]
  /\ UNCHANGED <<observed, now, messagesTable, sentTo, conn>>

\* -------------------------------------------------------- handleDisconnect
\* await docClient.delete({connectionId}), then notifyClients.
DisconnectDelete(i) ==
  /\ inv[i].pc = "disconnectDelete"
  /\ clientsTable' = DeleteClient(clientsTable, inv[i].connectionId)
  /\ inv' = [inv EXCEPT ![i].pc = "notifyScan"]
  /\ UNCHANGED <<observed, now, messagesTable, sentTo, conn>>

\* ----------------------------------------------------------- notifyClients
\* The connections notifyClients pushes to: all of the scan but the ignored.
NotifyTargets(clients, connectionIdToIgnore) ==
  {r.connectionId : r \in {x \in clients : x.connectionId # connectionIdToIgnore}}

\* await getEveryClient(), then one postToConnection per other client, all
\* started at once and awaited by Promise.all.
NotifyScan(i) ==
  /\ inv[i].pc = "notifyScan"
  /\ inv' = [inv EXCEPT ![i] =
               AwaitPosts(inv[i], NotifyTargets(clientsTable, inv[i].connectionId),
                          buildClientsMessage(clientsTable))]
  /\ UNCHANGED <<observed, now, clientsTable, messagesTable, sentTo, conn>>

\* -------------------------------------------------------- handleGetClients
\* await docClient.scan(...): the output is not used.
GetClientsScan(i) ==
  /\ inv[i].pc = "getClientsScan"
  /\ inv' = [inv EXCEPT ![i].pc = "getEveryClient"]
  /\ UNCHANGED <<observed, now, clientsTable, messagesTable, sentTo, conn>>

\* await getEveryClient(), then postToConnection(connectionId, ...).
GetEveryClient(i) ==
  /\ inv[i].pc = "getEveryClient"
  /\ inv' = [inv EXCEPT ![i] =
               AwaitPosts(inv[i], {inv[i].connectionId},
                          buildClientsMessage(clientsTable))]
  /\ UNCHANGED <<observed, now, clientsTable, messagesTable, sentTo, conn>>

\* ------------------------------------------------------- handleSendMessage
\* The get whose absent Item is not noticed.
SendGetUnchecked(i) ==
  /\ inv[i].pc = "sendGet"
  /\ LET sender == GetClient(clientsTable, inv[i].connectionId) IN
     inv' = [inv EXCEPT ![i] =
       [inv[i] EXCEPT !.pc = "sendPut", !.sender = sender,
          !.nicknameToNickname =
             NicknameToNickname(sender.nickname, inv[i].receiverNickname)]]
  /\ UNCHANGED <<observed, now, clientsTable, messagesTable, sentTo, conn>>

\* await docClient.get({connectionId: senderConnectionId}); sender.nickname
\* of an absent Item is a TypeError.
SendGet(i) ==
  /\ inv[i].pc = "sendGet"
  /\ LET sender == GetClient(clientsTable, inv[i].connectionId) IN
     inv' = [inv EXCEPT ![i] =
       IF sender = NoClient THEN Raise(inv[i], "TypeError")
       ELSE [inv[i] EXCEPT !.pc = "sendPut", !.sender = sender,
               !.nicknameToNickname =
                  NicknameToNickname(sender.nickname, inv[i].receiverNickname)]]
  /\ UNCHANGED <<observed, now, clientsTable, messagesTable, sentTo, conn>>

\* new Date().getMilliseconds(): the milliseconds within the current second.
getMilliseconds(t) == t % MillisPerSecond

\* The Item handleSendMessage puts.
MessageItem(r, messageId) ==
  [messageId |-> messageId, createdAt |-> getMilliseconds(now),
   nicknameToNickname |-> r.nicknameToNickname,
   message |-> r.message, sender |-> r.sender.nickname]

\* The put that is not made before the push.
SendPutLost(i) ==
  /\ inv[i].pc = "sendPut"
  /\ inv' = [inv EXCEPT ![i].pc = "sendQuery"]
  /\ UNCHANGED <<observed, now, clientsTable, messagesTable, sentTo, conn>>

\* await docClient.put on Messages.
SendPut(i) ==
  /\ inv[i].pc = "sendPut"
  /\ LET id == NewMessageId(messagesTable) IN
     /\ messagesTable' = messagesTable \cup {MessageItem(inv[i], id)}
     /\ sentTo' = Append(sentTo, inv[i].receiverNickname)
     /\ inv' = [inv EXCEPT ![i].pc = "sendQuery", ![i].messageId = id]
  /\ UNCHANGED <<observed, now, clientsTable, conn>>

\* await getConnectioinIdByNickname(receiverNickname), then the push to the
\* receiver if it has a row.
SendQuery(i) ==
  /\ inv[i].pc = "sendQuery"
  /\ \E e \in ConnectionIdsByNickname(clientsTable, inv[i].receiverNickname) :
       LET r == [inv[i] EXCEPT !.existingConnectionId = e] IN
       inv' = [inv EXCEPT ![i] =
         IF e # NoConn
         THEN AwaitPosts(r, {e}, buildMessage(r.sender.nickname, r.message))
         ELSE Return(r, 200)]
  /\ UNCHANGED <<observed, now, clientsTable, messagesTable, sentTo, conn>>

\* -------------------------------------------------------- postToConnection
Sent(r, c, outcome) ==
  [r EXCEPT !.posts = @ \ {c},
            !.sent = @ \cup {[to |-> c, data |-> r.data, outcome |-> outcome]}]

\* apiGWManagementAPI.postToConnection succeeds: the connection is open.
PostOk(i, c) ==
  /\ c \in inv[i].posts
  /\ conn[c] = "open"
  /\ inv' = [inv EXCEPT ![i] = Sent(inv[i], c, "ok")]
  /\ observed' = Observe(c, inv[i].data, "ok")
  /\ UNCHANGED <<now, clientsTable, messagesTable, sentTo, conn>>

\* A 410 that is swallowed without the delete.
PostGoneNoDelete(i, c) ==
  /\ c \in inv[i].posts
  /\ conn[c] # "open"
  /\ inv' = [inv EXCEPT ![i] = Sent(inv[i], c, "gone")]
  /\ UNCHANGED <<observed, now, clientsTable, messagesTable, sentTo, conn>>

\* It fails with statusCode 410: the connection is gone; the delete follows.
PostGone(i, c) ==
  /\ c \in inv[i].posts
  /\ conn[c] # "open"
  /\ inv' = [inv EXCEPT ![i] = [Sent(inv[i], c, "gone") EXCEPT !.deletes = @ \cup {c}]]
  /\ observed' = Observe(c, inv[i].data, "gone")
  /\ UNCHANGED <<now, clientsTable, messagesTable, sentTo, conn>>

\* Any failure of the push is taken for a stale connection: it is swallowed
\* and the delete follows.
PostFailAsGone(i, c) ==
  /\ c \in inv[i].posts
  /\ inv' = [inv EXCEPT ![i] = [Sent(inv[i], c, "error") EXCEPT !.deletes = @ \cup {c}]]
  /\ UNCHANGED <<observed, now, clientsTable, messagesTable, sentTo, conn>>

\* A failure of one push that calls off the pushes still in flight.
PostFailCancels(i, c) ==
  /\ c \in inv[i].posts
  /\ LET r == [Sent(inv[i], c, "error") EXCEPT !.posts = {}] IN
     Settle(i, IF r.pc = "awaitPosts" THEN Raise(r, "TransportFailure") ELSE r)
  /\ observed' = Observe(c, inv[i].data, "error")
  /\ UNCHANGED <<now, clientsTable, messagesTable, sentTo>>

\* It fails with any other error, which postToConnection throws again: the
\* awaiting handler raises, and the other pushes stay in flight.
PostFail(i, c) ==
  /\ c \in inv[i].posts
  /\ LET r == Sent(inv[i], c, "error") IN
     Settle(i, IF r.pc = "awaitPosts" THEN Raise(r, "TransportFailure") ELSE r)
  /\ observed' = Observe(c, inv[i].data, "error")
  /\ UNCHANGED <<now, clientsTable, messagesTable, sentTo>>

\* await docClient.delete({connectionId}) of the stale connection.
PostDelete(i, c) ==
  /\ c \in inv[i].deletes
  /\ clientsTable' = DeleteClient(clientsTable, c)
  /\ inv' = [inv EXCEPT ![i].deletes = @ \ {c}]
  /\ UNCHANGED <<observed, now, messagesTable, sentTo, conn>>

\* Every awaited postToConnection has returned: `return twoHundredResponse`.
AwaitDone(i) ==
  /\ inv[i].pc = "awaitPosts"
  /\ inv[i].posts = {}
  /\ inv[i].deletes = {}
  /\ Settle(i, Return(inv[i], 200))
  /\ UNCHANGED <<observed, now, clientsTable, messagesTable, sentTo>>

\* The runtime ends an invocation that raised; what it left in flight is not
\* run any further.  (Only a fan-out to two or more connections leaves pushes
\* in flight when it raises; with one invocation at a time and the nicknames
\* of Spec no fan-out is that wide, so Spec has no such step.)
Freeze(i) ==
  /\ inv[i].pc = "raised"
  /\ inv[i].posts \cup inv[i].deletes # {}
  /\ inv' = [inv EXCEPT ![i].posts = {}, ![i].deletes = {}]
  /\ UNCHANGED <<observed, now, clientsTable, messagesTable, sentTo, conn>>

\* The invocation is over and has nothing in flight: the runtime has the
\* instance ready for the next event.
Retire(i) ==
  /\ inv[i].pc # "idle"
  /\ Quiet(i)
  /\ inv' = [inv EXCEPT ![i] = IdleInvocation]
  /\ UNCHANGED <<observed, now, clientsTable, messagesTable, sentTo, conn>>

\* ------------------------------------------------------------- environment
\* A connection ends without its $disconnect having been handled yet.  The
\* handlers read a connection's state only as a push to it resolves, so with
\* one invocation at a time a connection that ends while the invocation runs
\* is one that ended before it.
Close(c) ==
  /\ conn[c] = "open"
  /\ conn' = [conn EXCEPT ![c] = "closed"]
  /\ observed' = Forget(c)
  /\ UNCHANGED <<now, clientsTable, messagesTable, sentTo, inv>>

\* ----------------------------------------------------------- specification
\* handle: the dispatch on routeKey.
handle(i) ==
  \/ \E c \in ConnIds, q \in QueryStringParameters : handleConnect(i, c, q)
  \/ \E c \in ConnIds : handleDisconnect(i, c)
  \/ \E c \in ConnIds : handleGetClients(i, c)
  \/ \E c \in ConnIds, b \in SendMessageBodies : handleSendMessage(i, c, b)
  \/ \E c \in ConnIds, b \in GetMessagesBodies : handleGetMessages(i, c, b)
  \/ \E c \in ConnIds : handleDefault(i, c)

Step(i) ==
  \/ ConnectQuery(i)
  \/ ConnectPut(i)
  \/ DisconnectDelete(i)
  \/ NotifyScan(i)
  \/ GetClientsScan(i)
  \/ GetEveryClient(i)
  \/ SendGet(i)
  \/ SendPut(i)
  \/ SendQuery(i)
  \/ AwaitDone(i)
  \/ Retire(i)
  \/ \E c \in AllConnIds : PostOk(i, c) \/ PostGone(i, c) \/ PostFail(i, c) \/ PostDelete(i, c)

Next ==
  \/ \E i \in Slots : SeqReady(i) /\ handle(i)
  \/ \E i \in Slots : Step(i)
  \/ \E c \in ConnIds : (\A j \in Slots : Quiet(j)) /\ Close(c)

Spec == Init /\ [][Next]_vars

\* ------------------------------------------------- presence: the fan-out
\* Carol joins Alice and Bob, so that a broadcast has two recipients.
Carol == <<99>>
FanNicknames == Nicknames \cup {Carol}

\* The presence events: $connect and $disconnect.
handleFan(i) ==
  \/ \E c \in FanConnIds, n \in FanNicknames :
       handleConnect(i, c, [kind |-> "object", nickname |-> JsString(n)])
  \/ \E c \in FanConnIds : handleDisconnect(i, c)

\* The steps of the presence handlers.  An invocation that raised may be
\* ended by the runtime with pushes still in flight.
StepFan(i) ==
  \/ ConnectQuery(i)
  \/ ConnectPut(i)
  \/ DisconnectDelete(i)
  \/ NotifyScan(i)
  \/ AwaitDone(i)
  \/ Retire(i)
  \/ Freeze(i)
  \/ \E c \in AllConnIds : PostOk(i, c) \/ PostGone(i, c) \/ PostFail(i, c) \/ PostDelete(i, c)

\* One invocation at a time, over three nicknames.
NextFan ==
  \/ \E i \in Slots : SeqReady(i) /\ handleFan(i)
  \/ \E i \in Slots : StepFan(i)
  \/ \E c \in FanConnIds : (\A j \in Slots : Quiet(j)) /\ Close(c)

SpecFan == Init /\ [][NextFan]_vars

\* ------------------------------------- presence: invocations side by side
\* The history of the pushes is kept.
InitRace ==
  /\ clientsTable = {}
  /\ messagesTable = {}
  /\ sentTo = <<>>
  /\ conn = [c \in AllConnIds |-> "fresh"]
  /\ inv = [i \in Slots |-> IdleInvocation]
  /\ observed = [NoObservation EXCEPT !.on = TRUE]
  /\ now = MillisPerSecond - MaxTicks

\* The runtime gives an event to any instance that is not running one: slot i
\* is ready whatever the other slot does.  (Of two ready slots the first is
\* taken.)
ConcReady(i) ==
  /\ inv[i].pc = "idle"
  /\ \A j \in Slots : j < i => inv[j].pc # "idle"

\* The presence events of the connections ids.
handleRace(i, ids) ==
  \/ \E c \in ids, n \in Nicknames :
       handleConnect(i, c, [kind |-> "object", nickname |-> JsString(n)])
  \/ \E c \in ids : handleDisconnect(i, c)

\* The steps of the presence handlers where the transport fails a push only
\* with gone.
StepRace(i) ==
  \/ ConnectQuery(i)
  \/ ConnectPut(i)
  \/ DisconnectDelete(i)
  \/ NotifyScan(i)
  \/ AwaitDone(i)
  \/ Retire(i)
  \/ \E c \in AllConnIds : PostOk(i, c) \/ PostGone(i, c) \/ PostDelete(i, c)

\* Invocations run side by side, their awaits interleaved, and a connection
\* may end at any moment.
NextRace(ids) ==
  \/ \E i \in Slots : ConcReady(i) /\ handleRace(i, ids)
  \/ \E i \in Slots : StepRace(i)
  \/ \E c \in ids : Close(c)

\* Two invocations side by side over the connections of Spec.
SpecRace == InitRace /\ [][NextRace(ConnIds)]_vars

\* The same over the connections of SpecFan, one more.
SpecRaceFan == InitRace /\ [][NextRace(FanConnIds)]_vars

\* --------------------------------------------- the store: keys and the clock
\* Nicknames with the separator in them, which handleConnect accepts as it
\* accepts any non-empty string: "#", "##", "a" and "#a".
KeyNicknames == {<<Hash>>, <<Hash, Hash>>, Alice, <<Hash>> \o Alice}

\* A millisecond passes.
Tick ==
  /\ now < MillisPerSecond
  /\ now' = now + 1
  /\ UNCHANGED <<observed, clientsTable, messagesTable, sentTo, conn, inv>>

\* The events that fill the store: $connect and sendMessage.
handleStore(i) ==
  \/ \E c \in ConnIds, n \in KeyNicknames :
       handleConnect(i, c, [kind |-> "object", nickname |-> JsString(n)])
  \/ \E c \in ConnIds, n \in KeyNicknames, x \in Texts :
       handleSendMessage(i, c, [kind |-> "object", message |-> JsText(x),
                                receiverNickname |-> JsString(n)])

\* The steps of handleConnect and handleSendMessage where every connection
\* stays open and the transport delivers every push.
StepStore(i) ==
  \/ ConnectQuery(i)
  \/ ConnectPut(i)
  \/ NotifyScan(i)
  \/ SendGet(i)
  \/ SendPut(i)
  \/ SendQuery(i)
  \/ AwaitDone(i)
  \/ Retire(i)
  \/ \E c \in AllConnIds : PostOk(i, c)

\* One invocation at a time, while the clock runs across the end of a second.
NextStore ==
  \/ \E i \in Slots : SeqReady(i) /\ handleStore(i)
  \/ \E i \in Slots : StepStore(i)
  \/ Tick

SpecStore == Init /\ [][NextStore]_vars

\* ------------------------------------------------------------------ claims
Ended(r) == r.pc \in {"returned", "raised"}

\* The step on which the invocation of slot i ends: its last step, or the
\* dispatch of an event that is answered at once.
Completes(i) ==
  /\ Ended(inv'[i])
  /\ \/ ~Ended(inv[i]) /\ inv[i].pc # "idle"
     \/ Quiet(i) /\ inv'[i] # inv[i]

\* The row a connect invocation inserts.
OwnRow(r) == [connectionId |-> r.connectionId, nickname |-> r.nickname]

\* The rows that held a nickname as the event arrived.
Holders(r, nickname) == {x \in r.before : x.nickname = nickname}

IsConnect(r) == r.routeKey = "$connect" /\ r.nickname # EmptyString

\* C1: a connect under a non-empty nickname N that no live connection holds
\* as it is handled returns 200, and afterwards the registry holds the row
\* {c, N} and the lookup of N by nickname returns c.  (A push of the broadcast
\* that fails in the transport is not the claim's case.)
C1_ConnectFreeNickname ==
  [][\A i \in Slots :
       (/\ Completes(i)
        /\ IsConnect(inv'[i])
        /\ \A x \in Holders(inv'[i], inv'[i].nickname) : conn[x.connectionId] # "open"
        /\ inv'[i].error # "TransportFailure")
       => /\ inv'[i].pc = "returned"
          /\ inv'[i].statusCode = 200
          /\ OwnRow(inv'[i]) \in clientsTable'
          /\ ConnectionIdsByNickname(clientsTable', inv'[i].nickname)
               = {inv'[i].connectionId}]_vars

\* C2: a connect under a nickname held by a row whose connection is reachable
\* returns 403, leaves every registry row as it was, inserts no row for the
\* new connectionId and pushes nothing.
C2_ConnectTakenNickname ==
  \A i \in Slots :
    (/\ IsConnect(inv[i])
     /\ \E x \in Holders(inv[i], inv[i].nickname) : conn[x.connectionId] = "open")
    => /\ inv[i].pc \in {"connectQuery", "returned"}
       /\ inv[i].pc = "returned" => inv[i].statusCode = 403
       /\ clientsTable = inv[i].before
       /\ \A x \in clientsTable : x.connectionId # inv[i].connectionId
       /\ inv[i].sent = {} /\ inv[i].posts = {} /\ inv[i].deletes = {}

C2_Witness ==
  \E i \in Slots :
    /\ IsConnect(inv[i])
    /\ inv[i].pc = "returned" /\ inv[i].statusCode = 403
    /\ \E x \in Holders(inv[i], inv[i].nickname) : conn[x.connectionId] = "open"

\* C3: a connect under a nickname whose only rows are of connections that are
\* gone probes the holder with the ping, finds it unreachable and succeeds:
\* it returns 200, the stale row is gone from the registry and the new row is
\* in it.
C3_ConnectStaleNickname ==
  [][\A i \in Slots :
       (/\ Completes(i)
        /\ IsConnect(inv'[i])
        /\ Holders(inv'[i], inv'[i].nickname) # {}
        /\ \A x \in Holders(inv'[i], inv'[i].nickname) : conn[x.connectionId] # "open"
        /\ inv'[i].error # "TransportFailure")
       => /\ inv'[i].pc = "returned"
          /\ inv'[i].statusCode = 200
          /\ \E s \in inv'[i].sent :
               /\ s.data.type = "ping"
               /\ s.outcome = "gone"
               /\ s.to \in {x.connectionId : x \in Holders(inv'[i], inv'[i].nickname)}
          /\ Holders(inv'[i], inv'[i].nickname) \cap clientsTable' = {}
          /\ OwnRow(inv'[i]) \in clientsTable']_vars

\* C4: a connect without query parameters, without a nickname or with the
\* empty nickname returns 403, changes neither table and pushes nothing.
C4_ConnectNoNickname ==
  [][\A i \in Slots :
       (inv'[i].routeKey = "$connect" /\ inv'[i].nickname = EmptyString)
       => /\ inv'[i].pc = "returned"
          /\ inv'[i].statusCode = 403
          /\ inv'[i].sent = {} /\ inv'[i].posts = {} /\ inv'[i].deletes = {}
          /\ inv'[i] # inv[i] =>
               /\ clientsTable' = clientsTable
               /\ messagesTable' = messagesTable]_vars

C4_Witness ==
  \E i \in Slots :
    /\ inv[i].routeKey = "$connect" /\ inv[i].nickname = EmptyString
    /\ inv[i].pc = "returned" /\ inv[i].statusCode = 403
    /\ clientsTable # {} /\ messagesTable # {}

ConnectionIdsOf(rows) == {x.connectionId : x \in rows}

\* C5: a disconnect of C1 returns 200 whether or not C1 has a row, leaves no
\* row of C1, removes no row of a live connection C2, and pushes to every
\* connection that remains registered, and to no other, a snapshot that does
\* not list C1.  (A row other than C1's goes only when the push to it reports
\* the connection gone.)
C5_DisconnectOnlyOwnRow ==
  \A i \in Slots :
    (inv[i].routeKey = "$disconnect" /\ Ended(inv[i]))
    => LET r == inv[i]
           remaining == {x \in r.before : x.connectionId # r.connectionId}
       IN /\ \/ r.pc = "returned" /\ r.statusCode = 200
             \/ r.pc = "raised" /\ r.error = "TransportFailure"
          /\ \A x \in clientsTable : x.connectionId # r.connectionId
          /\ clientsTable \subseteq remaining
          /\ \A x \in remaining : conn[x.connectionId] = "open" => x \in clientsTable
          /\ \A x \in remaining \ clientsTable :
               \E s \in r.sent : s.to = x.connectionId /\ s.outcome = "gone"
          /\ \A s \in r.sent : /\ s.to # r.connectionId
                               /\ s.data = buildClientsMessage(remaining)
          /\ r.pc = "returned" =>
               /\ {s.to : s \in r.sent} = ConnectionIdsOf(remaining)
               /\ \A x \in remaining : conn[x.connectionId] = "open" =>
                    \E s \in r.sent : s.to = x.connectionId /\ s.outcome = "ok"

C5_Witness ==
  \E i \in Slots :
    /\ inv[i].routeKey = "$disconnect"
    /\ inv[i].pc = "returned" /\ inv[i].statusCode = 200
    /\ \E x \in inv[i].before : x.connectionId = inv[i].connectionId
    /\ \E x \in clientsTable :
         /\ conn[x.connectionId] = "open"
         /\ \E s \in inv[i].sent : s.to = x.connectionId /\ s.outcome = "ok"

\* The pushes of a send to its receiver that reported the connection gone.
GoneMessagePushes(r) ==
  {s \in r.sent : s.data.type = "message" /\ s.outcome = "gone"}

\* C6: when the push of a send reports the receiver's connection gone, the
\* send still returns 200, the store holds exactly one row of this send, with
\* the canonical conversation key, the sender and the body, and when the send
\* has completed the receiver's row is removed and no other row is changed.
C6_SendToStaleReceiver ==
  \A i \in Slots :
    (inv[i].routeKey = "sendMessage" /\ GoneMessagePushes(inv[i]) # {})
    => LET r == inv[i]
           gone == {s.to : s \in GoneMessagePushes(r)}
       IN /\ r.pc \in {"awaitPosts", "returned"}
          /\ r.sender \in r.before /\ r.sender.connectionId = r.connectionId
          /\ gone \subseteq ConnectionIdsOf(Holders(r, r.receiverNickname))
          /\ Cardinality({m \in messagesTable : m.messageId = r.messageId}) = 1
          /\ \A m \in messagesTable :
               m.messageId = r.messageId =>
                 /\ m.nicknameToNickname =
                      NicknameToNickname(r.sender.nickname, r.receiverNickname)
                 /\ m.message = r.message
                 /\ m.sender = r.sender.nickname
          /\ r.pc = "returned" =>
               /\ r.statusCode = 200
               /\ clientsTable = {x \in r.before : x.connectionId \notin gone}

C6_Witness ==
  \E i \in Slots :
    /\ inv[i].routeKey = "sendMessage"
    /\ GoneMessagePushes(inv[i]) # {}
    /\ inv[i].pc = "returned"
    /\ inv[i].sender \in clientsTable
    /\ clientsTable # inv[i].before

\* A send that has got as far as its push to the receiver.
PushAttempted(r) == r.routeKey = "sendMessage" /\ r.data.type = "message"

\* C7: whenever the push of a send to its receiver is in flight, has been
\* delivered or has failed (gone, or any other error), the row of that send
\* is in the store; and no row ever leaves the store.
C7_PersistBeforePush ==
  [][/\ messagesTable \subseteq messagesTable'
     /\ \A i \in Slots :
          PushAttempted(inv'[i]) =>
            \E m \in messagesTable' :
              /\ m.messageId = inv'[i].messageId
              /\ m.sender = inv'[i].sender.nickname
              /\ m.message = inv'[i].message
              /\ m.nicknameToNickname = inv'[i].nicknameToNickname]_vars

C7_Witness ==
  \E i \in Slots :
    /\ PushAttempted(inv[i])
    /\ inv[i].pc = "raised"
    /\ \E s \in inv[i].sent : s.outcome = "error"
    /\ \E m \in messagesTable : m.messageId = inv[i].messageId

\* C8: a send with a well-formed body from a connectionId that has no registry
\* row fails: it writes no message row, pushes nothing, changes no registry
\* row and returns no acknowledgement.
C8_SendWithoutRow ==
  \A i \in Slots :
    (/\ inv[i].routeKey = "sendMessage"
     /\ inv[i].parse = "none"
     /\ GetClient(inv[i].before, inv[i].connectionId) = NoClient)
    => /\ inv[i].pc \in {"sendGet", "raised"}
       /\ inv[i].pc = "raised" => inv[i].error = "TypeError"
       /\ inv[i].statusCode = 0
       /\ inv[i].messageId = 0
       /\ inv[i].sent = {} /\ inv[i].posts = {} /\ inv[i].deletes = {}
       /\ clientsTable = inv[i].before

C8_Witness ==
  \E i \in Slots :
    /\ inv[i].routeKey = "sendMessage"
    /\ inv[i].parse = "none"
    /\ GetClient(inv[i].before, inv[i].connectionId) = NoClient
    /\ inv[i].pc = "raised"
    /\ clientsTable # {}

\* C9: a sendMessage or getMessages event with a malformed body (unparseable,
\* or with fields of the wrong type) does not raise its error: the error is
\* pushed to the originating connection only, the invocation ends with its
\* status, and neither the message store nor the row of any other connection
\* is changed.  (A push that fails in the transport is not the claim's case.)
C9_MalformedBodyReported ==
  \A i \in Slots :
    (inv[i].routeKey \in {"sendMessage", "getMessages"} /\ inv[i].parse # "none")
    => LET r == inv[i] IN
       /\ r.pc = "raised" => r.error = "TransportFailure"
       /\ r.pc = "returned" =>
            /\ r.statusCode \in {200, 400}
            /\ \E s \in r.sent : s.to = r.connectionId /\ s.data.type = "text"
       /\ \A s \in r.sent : s.to = r.connectionId
       /\ r.posts \subseteq {r.connectionId}
       /\ r.messageId = 0
       /\ clientsTable \subseteq r.before
       /\ \A x \in r.before : x.connectionId # r.connectionId => x \in clientsTable

\* C10: the rows of a send from A to B and of a send from B to A carry the
\* same conversation key.
C10_KeyOrderIndependent ==
  \A m1 \in messagesTable, m2 \in messagesTable :
    (/\ m1.sender = sentTo[m2.messageId]
     /\ m2.sender = sentTo[m1.messageId])
    => m1.nicknameToNickname = m2.nicknameToNickname

C10_Witness ==
  \E m1 \in messagesTable, m2 \in messagesTable :
    /\ m1.sender # m2.sender
    /\ m1.sender = sentTo[m2.messageId]
    /\ m2.sender = sentTo[m1.messageId]

\* The pushes of an invocation that were delivered.
Delivered(r) == {s \in r.sent : s.outcome = "ok"}

\* C11: a getClients of connection c pushes to c, and to no other connection,
\* a clients snapshot of the whole registry; when that push is delivered the
\* invocation does not raise, it returns 200, and the registry is what it was
\* as the request arrived, the row of c included.
C11_GetClientsToRequesterOnly ==
  \A i \in Slots :
    LET r == inv[i] IN
    r.routeKey = "getClients" =>
      /\ r.posts \subseteq {r.connectionId}
      /\ \A s \in r.sent :
           s.to = r.connectionId /\ s.data = buildClientsMessage(r.before)
      /\ Ended(r) => r.attempted = {r.connectionId}
      /\ Delivered(r) # {} =>
           /\ r.pc # "raised"
           /\ r.pc = "returned" => r.statusCode = 200
           /\ clientsTable = r.before

\* A getClients has returned after its snapshot, which lists the requester
\* and another connection, was delivered.
C11_Witness ==
  \E i \in Slots :
    /\ inv[i].routeKey = "getClients"
    /\ inv[i].pc = "returned"
    /\ Delivered(inv[i]) # {}
    /\ Cardinality(clientsTable) = 2
    /\ inv[i].connectionId \in ConnectionIdsOf(clientsTable)

\* The arguments handleGetMessages was entered with ask for a history the
\* spec refuses: a limit that is not positive, or an empty targetNickname.
RefusedHistoryRequest(r) ==
  /\ r.routeKey = "getMessages"
  /\ \/ r.limit.t = "number" /\ r.limit.n <= 0
     \/ r.targetNickname = JsString(EmptyString)

\* C12: a getMessages whose limit is zero or negative, or whose
\* targetNickname is empty, is rejected by the parse with the validation
\* error, which is pushed to the requester; handleGetMessages is not entered
\* with such arguments.
C12_GetMessagesValidated ==
  \A i \in Slots :
    LET r == inv[i] IN
    RefusedHistoryRequest(r) =>
      /\ r.parse = "HandleError"
      /\ r.pc # "raised"
      /\ Ended(r) => \E s \in r.sent : s.to = r.connectionId

\* C14: with one invocation at a time, after any sequence of connect,
\* disconnect, getClients and sendMessage events no two rows of the registry
\* carry the same nickname.
C14_NicknamesUnique ==
  \A x \in clientsTable : \A y \in clientsTable :
    x.nickname = y.nickname => x.connectionId = y.connectionId

\* A connect has returned 200 and the registry holds its row and the row of
\* another connection.
C14_Witness ==
  /\ Cardinality(clientsTable) = 2
  /\ \E i \in Slots :
       /\ IsConnect(inv[i])
       /\ inv[i].pc = "returned"
       /\ inv[i].statusCode = 200
       /\ OwnRow(inv[i]) \in clientsTable

\* The pushes of invocation i that this step resolves with the outcome.
Resolved(i, outcome) ==
  {s \in inv'[i].sent \ inv[i].sent : s.outcome = outcome}

\* C17: the step on which a push fails with an error other than gone removes
\* no row, schedules no delete, and leaves the invocation raised with that
\* error; and a row other than the one a disconnect deletes for its own
\* connection leaves the registry only through the delete that follows a push
\* to it that reported gone.
C17_OnlyGoneIsStale ==
  [][/\ \A i \in Slots :
          Resolved(i, "error") # {} =>
            /\ clientsTable' = clientsTable
            /\ inv'[i].deletes = inv[i].deletes
            /\ inv'[i].pc = "raised"
            /\ inv'[i].error = "TransportFailure"
     /\ \A x \in clientsTable \ clientsTable' :
          \E i \in Slots :
            \/ /\ inv[i].pc = "disconnectDelete"
               /\ inv[i].connectionId = x.connectionId
            \/ /\ x.connectionId \in inv[i].deletes
               /\ \E s \in inv[i].sent :
                    s.to = x.connectionId /\ s.outcome = "gone"]_vars

\* An invocation has raised on a push that failed with another error, and
\* the row of the push's target is still in the registry.
C17_Witness ==
  \E i \in Slots :
    /\ inv[i].pc = "raised"
    /\ inv[i].error = "TransportFailure"
    /\ \E s \in inv[i].sent :
         s.outcome = "error" /\ s.to \in ConnectionIdsOf(clientsTable)

\* C13: with the awaits of two connect invocations interleaved, a lookup that
\* runs while no row carries the nickname observes no entry and goes on to
\* the insert, whatever the other invocation is doing; the insert adds the
\* invocation's own row and overwrites no other row, the keys being the
\* connectionIds; and a connect whose lookup observed no entry is not
\* refused.  (So two connects under one nickname, both looking up before
\* either inserts, leave two rows under that nickname: C13_Witness.)
C13_RacingConnectsBothInsert ==
  [][\A i \in Slots :
       /\ (/\ inv[i].pc = "connectQuery"
           /\ inv'[i].pc # "connectQuery"
           /\ QueryByNickname(clientsTable, inv[i].nickname) = {})
            => /\ inv'[i].pc = "connectPut"
               /\ inv'[i].existingConnectionId = NoConn
       /\ (inv[i].pc = "connectPut" /\ inv'[i].pc = "notifyScan")
            => /\ OwnRow(inv[i]) \in clientsTable'
               /\ clientsTable \subseteq clientsTable'
       /\ (/\ IsConnect(inv'[i])
           /\ inv'[i].pc = "returned"
           /\ inv'[i].existingConnectionId = NoConn)
            => inv'[i].statusCode = 200]_vars

\* Two connect invocations under one nickname, for different connections,
\* have both returned 200 and the registry holds both their rows.
C13_Witness ==
  \E i \in Slots : \E j \in Slots :
    /\ i # j
    /\ IsConnect(inv[i]) /\ IsConnect(inv[j])
    /\ inv[i].nickname = inv[j].nickname
    /\ inv[i].connectionId # inv[j].connectionId
    /\ inv[i].pc = "returned" /\ inv[i].statusCode = 200
    /\ inv[j].pc = "returned" /\ inv[j].statusCode = 200
    /\ inv[i].existingConnectionId = NoConn
    /\ inv[j].existingConnectionId = NoConn
    /\ {OwnRow(inv[i]), OwnRow(inv[j])} \subseteq clientsTable

\* C18: when no push has failed and every invocation has completed, with
\* nothing left in flight, the clients snapshot that a registered, open
\* connection received last lists exactly the rows of the registry.
C18_LastSnapshotIsRegistry ==
  (/\ ~observed.failed
   /\ \A i \in Slots : Quiet(i))
    => \A x \in clientsTable :
         (/\ conn[x.connectionId] = "open"
          /\ observed.snapshot[x.connectionId] # NoSnapshot)
           => observed.snapshot[x.connectionId] = clientsTable

\* An invocation of connect or disconnect that has reached its broadcast.
IsBroadcast(r) ==
  r.routeKey \in {"$connect", "$disconnect"} /\ r.data.type = "clients"

\* The connections whose push has resolved, whatever the outcome.
SentTos(r) == {s.to : s \in r.sent}

\* C15: a broadcast attempts a push to every connection of its snapshot but
\* the excluded one; the step on which one push resolves as gone or as
\* failed takes no other push out of flight; until the invocation has
\* raised, every attempted push is in flight or has resolved; and every push
\* that was delivered carried the whole snapshot.
C15_FanOutIsolated ==
  [][\A i \in Slots :
       /\ (IsBroadcast(inv[i])
             /\ Resolved(i, "gone") \cup Resolved(i, "error") # {})
            => /\ inv'[i].attempted = inv[i].attempted
               /\ inv[i].posts \ inv'[i].posts \subseteq
                    {s.to : s \in Resolved(i, "gone") \cup Resolved(i, "error")}
       /\ IsBroadcast(inv'[i]) =>
            LET r == inv'[i] IN
            /\ r.attempted =
                 ConnectionIdsOf(r.data.clients) \ {r.connectionId}
            /\ r.posts \cup SentTos(r) \subseteq r.attempted
            /\ r.pc # "raised" => r.attempted = r.posts \cup SentTos(r)
            /\ \A s \in Delivered(r) : s.data = r.data]_vars

\* A broadcast over a snapshot of three rows has had one push resolve as gone
\* or failed and the other delivered.
C15_Witness ==
  \E i \in Slots :
    /\ IsBroadcast(inv[i])
    /\ Cardinality(inv[i].data.clients) = 3
    /\ Cardinality(inv[i].attempted) = 2
    /\ \E s \in inv[i].sent : s.outcome # "ok"
    /\ \E s \in Delivered(inv[i]) : s.data.clients = inv[i].data.clients

\* C16: an invocation of connect or disconnect that has returned or raised
\* has no push of its broadcast, and no delete of a stale row, in flight.
C16_CompleteAfterFanOut ==
  \A i \in Slots :
    (inv[i].routeKey \in {"$connect", "$disconnect"} /\ Ended(inv[i]))
      => inv[i].posts = {} /\ inv[i].deletes = {}

\* The two nicknames of the conversation a row belongs to: its sender and
\* the receiver its send named.
Parties(m) == {m.sender, sentTo[m.messageId]}

\* C19: over the nicknames that connect accepts, two rows carry the same
\* conversation key only if they belong to the same unordered pair of
\* nicknames.
C19_KeyInjective ==
  \A m1 \in messagesTable, m2 \in messagesTable :
    m1.nicknameToNickname = m2.nicknameToNickname => Parties(m1) = Parties(m2)

\* C20: of two rows of one conversation, the one whose send completed before
\* the other's began carries a createdAt that is not the greater.  (The sends
\* run one at a time, and the ids are given in the order of the puts.)
C20_CreatedAtMonotonic ==
  \A m1 \in messagesTable, m2 \in messagesTable :
    (/\ m1.nicknameToNickname = m2.nicknameToNickname
     /\ m1.messageId < m2.messageId)
    => m1.createdAt <= m2.createdAt

=============================================================================
